---- MODULE Spec2Model ----
(***************************************************************************)
(* dB Meter Pro: the loudness estimation and sustained-event detection     *)
(* pipeline of src/src/App.tsx (the `update` tick started by               *)
(* startMonitoring), the 1000 ms emission timer it schedules, the 30000 ms *)
(* session aggregator and the label function getDbLabel.                   *)
(*                                                                         *)
(* Fixed point.  Decibel values that the code holds as floats before       *)
(* rounding are held in tenths of a dB (suffix 10).  The sample buffer of  *)
(* a tick is represented by its RMS, as the number x of tenths of a dB by  *)
(* which the RMS exceeds the 1e-6 floor of line 239:                       *)
(*     rms = 1e-6 * 10^(x/200),   x = 0  <=>  rms <= 1e-6 (e.g. all zeros) *)
(* so that 20*log10(rms) + 80 = x/10 - 40 for x > 0.                       *)
(* durationRef is held in tenths of a second.  Times are in ms.            *)
(*                                                                         *)
(* Time.  The clock advances by one frame period at a time; in each frame  *)
(* the tick loop runs `update` once, and every timer that is due fires in  *)
(* the frame in which it becomes due, before or after that frame's tick.   *)
(*                                                                         *)
(* The smoothing path of the tick (lines 242-250: smoothedDbRef,           *)
(* lastDisplayUpdateRef, setDisplayDb) writes only fields that no other    *)
(* step of the tick reads.  It is the operator Smooth; the ticks of the    *)
(* monitoring session and of the specifications of the display run it,     *)
(* the action Tick of the detector specifications leaves it out.           *)
(* smoothedDbRef and displayDb are held in thousandths of a dB.            *)
(*                                                                         *)
(* Around the pipeline: the settings (React state, the refs the tick       *)
(* reads, the record in localStorage, the load and persist effects), the   *)
(* monitoring session (startMonitoring, stopMonitoring, the device effect, *)
(* streams, audio contexts and update loops) and the 'notify' handler of   *)
(* the main process (src/main.js).  A promise that settles, a timer that   *)
(* fires and an animation-frame callback are steps of their own; a user    *)
(* event and the render and effects that follow it are one step.           *)
(***************************************************************************)
EXTENDS Integers, Sequences, FiniteSets, TLC

VARIABLES
    \* ---- wall clock and scheduling
    now,                \* Date.now()
    framePeriod,        \* ms between two animation frames
    horizon,            \* number of frames explored
    feed,               \* which inputs the audio source delivers
    tickNo,             \* frames begun so far
    ticked,             \* the tick of the current frame has run
    \* ---- settings read by the tick
    calibrationRef, thresholdRef, durationRef,
    \* ---- the tick's locals, as last computed
    sample, currentDb,
    \* ---- peaks and buffers
    peak, sessionPeakRef, history, sessionHistory, sessionUpdates,
    \* ---- event detector
    isAlerting, loudStartTimeRef, eventPeakRef, isEventOccurring,
    lastNotifyTime, emitTimers, events, notified,
    \* ---- session aggregator timer
    nextAgg,
    \* ---- category text under the meter
    displayDb,          \* thousandths of a dB
    shownLabel,
    \* ---- smoothing path of the tick
    smoothedDbRef,      \* thousandths of a dB
    lastDisplayUpdateRef, \* ms
    \* ---- history variables (observations, not program state)
    runStart,           \* first tick of the current contiguous run above threshold
    runQualifs,         \* emissions scheduled during that run
    brokenRun,          \* a run has ended before lasting durationRef
    lastQualAt,         \* time of the most recent qualification
    qualified,          \* emissions ever scheduled
    logged,             \* SoundEvents ever appended
    windowMax,          \* largest currentDb since the aggregator last fired
    aggExpected,        \* windowMax at each firing of the aggregator
    aggAppended,        \* the values appended to sessionHistory, in order
    windowTicked,       \* a tick has run since the aggregator last fired
    aggTicked,          \* windowTicked at each firing of the aggregator
    session0,           \* sessionHistory at the first frame explored
    runMax,             \* largest currentDb of the current run above threshold
    episodeMax,         \* largest currentDb of the run that scheduled the emission
    episodeOpen,        \* that run has not ended yet
    \* ---- React state of the controls, and persistent storage
    threshold, durationThreshold, calibrationOffset, smoothingSpeed,
    selectedDevice, devices,
    storage,            \* localStorage['db-meter-settings']: <<>> or <<record>>
    smoothingAlphaRef,  \* in hundredths
    displayIntervalRef, \* ms
    phase,              \* "boot", "loading" (first pass done), "ready"
    enumerating,        \* enumerateDevices() has not resolved yet
    \* ---- monitoring session
    streamRef,          \* 0 (null) or the id of a stream
    tracks,             \* tracks[i]: stream i has not been stopped
    audioContext,       \* 0 (null) or the id of an AudioContext
    ctxState,           \* ctxState[i]: "running" or "closed"
    closing,            \* contexts whose close() has not settled
    analyser,           \* 0 (null) or the id of the context of the analyser
    loops,              \* update loops that resubmit themselves
    tickedLoops,        \* loops whose tick of the current frame has run
    pendingStarts,      \* startMonitoring calls awaiting getUserMedia
    audioErrors,        \* console.error('Audio error:') lines
    starts,             \* startMonitoring calls so far
    \* ---- main process
    platformOk,         \* Notification.isSupported()
    handled,            \* 'notify' messages received so far
    shown,              \* what became of each of them
    exportMsgs,         \* the 'export-logs' messages sent so far
    exportsReceived,    \* how many of them the handler has received
    saveDialogs,        \* logs whose save dialog is open
    written,            \* the files written by fs.writeFileSync, in order
    \* ---- history variables of the session and the settings
    stoppedLoops,       \* the loops alive at a stopMonitoring, with its frame
    bootRecord,         \* storage as found when the component was mounted
    userPicked,         \* the user has chosen a device in the current run
    runNo               \* launches of the application so far

vars == << now, framePeriod, horizon, feed, tickNo, ticked,
           calibrationRef, thresholdRef, durationRef, sample, currentDb,
           peak, sessionPeakRef, history, sessionHistory, sessionUpdates,
           isAlerting, loudStartTimeRef, eventPeakRef, isEventOccurring,
           lastNotifyTime, emitTimers, events, notified, nextAgg,
           displayDb, shownLabel, smoothedDbRef, lastDisplayUpdateRef,
           runStart, runQualifs, brokenRun, lastQualAt, qualified, logged,
           windowMax, aggExpected, aggAppended, windowTicked, aggTicked, session0,
           runMax, episodeMax, episodeOpen,
           threshold, durationThreshold, calibrationOffset, smoothingSpeed,
           selectedDevice, devices, storage, smoothingAlphaRef,
           displayIntervalRef, phase, enumerating,
           streamRef, tracks, audioContext, ctxState, closing, analyser,
           loops, tickedLoops, pendingStarts, audioErrors, starts,
           platformOk, handled, shown, exportMsgs, exportsReceived, saveDialogs,
           written,
           stoppedLoops, bootRecord, userPicked, runNo >>

clockVars   == << now, framePeriod, horizon, feed, tickNo, ticked >>
settingVars == << calibrationRef, thresholdRef, durationRef >>
peakObs     == << runMax, episodeMax, episodeOpen >>
tickObs     == << windowTicked, aggTicked >>
stateVars   == << threshold, durationThreshold, calibrationOffset, smoothingSpeed,
                 selectedDevice, devices, storage, smoothingAlphaRef,
                 displayIntervalRef, phase, enumerating, bootRecord, userPicked,
                 runNo >>
streamVars  == << streamRef, tracks, audioContext, ctxState, closing >>
loopVars    == << analyser, loops, tickedLoops, pendingStarts, audioErrors, starts,
                 stoppedLoops >>
smoothVars  == << smoothedDbRef, lastDisplayUpdateRef >>
exportVars  == << exportMsgs, exportsReceived, saveDialogs, written >>
mainVars    == << platformOk, handled, shown, exportVars >>
outerVars   == << stateVars, streamVars, loopVars, mainVars, smoothVars >>
restVars    == << displayDb, shownLabel, brokenRun, session0, outerVars >>

-----------------------------------------------------------------------------
(* Program constants *)

HistoryLen   == 100
SessionCap   == 480
EventCap     == 50
CooldownMs   == 7000
EmitDelayMs  == 1000
AggregateMs  == 30000
BaseOffset10 == 800
RmsFloor10   == 1200      \* 20*log10(1e-6) = -120 dB, in tenths

(* Bounds of the exploration *)

T0        == 9000         \* Date.now() at the first frame
MaxTicks  == 13           \* frames explored by Spec
FewTicks  == 4            \* frames explored from a long-running state
ReadTicks  == 2            \* frames explored by the reading specification
MaxDisplay10 == 1250      \* largest display value (tenths) rendered as text

Max(a, b) == IF a >= b THEN a ELSE b

Take(s, n) == SubSeq(s, 1, IF Len(s) < n THEN Len(s) ELSE n)

Last(s, n) == SubSeq(s, IF Len(s) > n THEN Len(s) - n + 1 ELSE 1, Len(s))

Zeros(n) == [i \in 1..n |-> 0]

-----------------------------------------------------------------------------
(* Loudness estimator, lines 235-240 *)

\* baseDb (tenths) of a buffer whose RMS is x tenths of a dB above 1e-6
BaseDb10(x) == IF x > 0 THEN (x - RmsFloor10) + BaseOffset10 ELSE 0

\* Math.round on a non-negative value given in tenths: ties go up
MathRound(v10) == (v10 + 5) \div 10

\* Math.round on a non-negative value given in thousandths
MathRoundMilli(v) == (v + 500) \div 1000

\* variants of CurrentDb: the offset added after the clamp; no clamp at all
CurrentDb_ClampFirst(base10, cal) == MathRound(Max(0, base10)) + cal

CurrentDb_NoClamp(base10, cal) == (base10 + 10 * cal + 5) \div 10

CurrentDb(base10, cal) == MathRound(Max(0, base10 + 10 * cal))

(* Label function, lines 24-34 *)

\* variant of getDbLabel: every breakpoint compared with <=
getDbLabel_Inclusive(db) ==
    IF db <= 30 THEN "Whisper Quiet"
    ELSE IF db <= 40 THEN "Quiet Library"
    ELSE IF db <= 50 THEN "Quiet Room"
    ELSE IF db <= 60 THEN "Normal Conversation"
    ELSE IF db <= 70 THEN "Busy Office"
    ELSE IF db <= 80 THEN "Loud Cafe"
    ELSE IF db <= 90 THEN "Vacuum / Traffic"
    ELSE IF db <= 100 THEN "Sound System"
    ELSE "Potential Damage!"

getDbLabel(db) ==
    IF db < 30 THEN "Whisper Quiet"
    ELSE IF db < 40 THEN "Quiet Library"
    ELSE IF db < 50 THEN "Quiet Room"
    ELSE IF db < 60 THEN "Normal Conversation"
    ELSE IF db < 70 THEN "Busy Office"
    ELSE IF db < 80 THEN "Loud Cafe"
    ELSE IF db < 90 THEN "Vacuum / Traffic"
    ELSE IF db < 100 THEN "Sound System"
    ELSE "Potential Damage!"

(* State updaters *)

PushHistory(prev, db) == Append(Tail(prev), db)

PushSession(prev, v) == Last(Append(prev, v), SessionCap)

\* variant of PushEvent: slice(-50) in place of slice(0, 50)
PushEvent_KeepOldest(prev, ev) == Last(<<ev>> \o prev, EventCap)

PushEvent(prev, ev) == Take(<<ev>> \o prev, EventCap)

(* Detector conditions, lines 269-282 *)

\* variant of Above: >= in place of >
Above_Inclusive(db, thr) == db >= thr

\* line 269
Above(db, thr) == db > thr

\* variants of CooldownElapsed: 700 ms; >= in place of >
CooldownElapsed_Short(t, last) == t - last > 700

CooldownElapsed_Inclusive(t, last) == t - last >= CooldownMs

CooldownElapsed(t, last) == t - last > CooldownMs

\* variant of Sustained: > in place of >=
Sustained_Strict(t, start, limit) == (t - start) * 10 > limit * 1000

Sustained(t, start, limit) == (t - start) * 10 >= limit * 1000

\* variant of LoudStart: the else branch of line 306 missing
LoudStart_NoReset(above, ref, t) ==
    IF ref = <<>> THEN (IF above THEN <<t>> ELSE <<>>) ELSE ref

\* lines 272-274 and 308: null is the empty sequence
LoudStart(above, ref, t) ==
    IF above THEN (IF ref = <<>> THEN <<t>> ELSE ref) ELSE <<>>

\* variant of EventPeak: a tick that is not above the threshold resets it
EventPeak_ResetBelow(above, ref, db) == IF above THEN Max(ref, db) ELSE 0

\* line 279, in the branch of line 269
EventPeak(above, ref, db) == IF above THEN Max(ref, db) ELSE ref

\* variant of Qualifies: isEventOccurring is not tested
Qualifies_NoGuard(t, start, limit, last, occurring) ==
    /\ Sustained(t, start, limit)
    /\ CooldownElapsed(t, last)

\* variant of Qualifies: no cooldown
Qualifies_NoCooldown(t, start, limit, last, occurring) ==
    /\ ~occurring
    /\ Sustained(t, start, limit)

Qualifies(t, start, limit, last, occurring) ==
    /\ ~occurring
    /\ Sustained(t, start, limit)
    /\ CooldownElapsed(t, last)

NotifyTitle == "Sustained Noise Detected!"

\* a number of tenths of a second as the template literal prints the seconds
Seconds(limit) ==
    IF limit % 10 = 0 THEN << limit \div 10 >>
    ELSE << limit \div 10, ".", limit % 10 >>

\* variant of NotifyBody: the peak and the duration exchanged
NotifyBody_Swapped(pk, limit) ==
    << "Level reached " >> \o Seconds(limit) \o << " dB for ", pk, "+ sec." >>

\* line 290
NotifyBody(pk, limit) ==
    << "Level reached ", pk, " dB for " >> \o Seconds(limit) \o << "+ sec." >>

-----------------------------------------------------------------------------
(* What the audio source delivers, per feed *)

\* at calibration 0: 80.4 -> 80 (the threshold itself), 90.0 -> 90, 95.5 -> 96
Levels == {1204, 1300, 1355}

\* the floor, just above it, around 0 dB, rounding ties, loud, very loud
ReadingLevels == {0, 1, 100, 395, 404, 405, 700, 1195, 1204, 1205, 1300, 1600}

\* 89.4 -> 89, 89.5 -> 90, 100.0 -> 100
LabelLevels == {1294, 1295, 1400}

Loud90 == 1300

Elapsed == now - T0

Inputs ==
    CASE feed = "any"     -> Levels
      [] feed = "reading" -> ReadingLevels
      [] feed = "label"   -> LabelLevels
      [] feed = "life"    -> {Loud90}
      [] feed = "smooth"  -> {0, Loud90}
      [] feed = "decay"   -> {IF tickNo <= 3 THEN Loud90 ELSE 0}
      [] feed = "steady"  -> {IF Elapsed <= 2500 THEN Loud90 ELSE 0}
      [] feed = "twice"   -> {IF Elapsed <= 3000 \/ (Elapsed >= 7000 /\ Elapsed <= 10000)
                              THEN Loud90 ELSE 0}

-----------------------------------------------------------------------------
(* update, lines 224-312 (without the smoothing path, lines 242-254) *)

\* variant of EmitDue: the callback is queued without a delay
EmitDue_NoDelay(t) == t

\* when the setTimeout of line 286 is due
EmitDue(t) == t + EmitDelayMs

\* the body of update for a buffer of level x
TickBody(x) ==
    /\ LET db    == CurrentDb(BaseDb10(x), calibrationRef)
           above == Above(db, thresholdRef)
           start == LoudStart(above, loudStartTimeRef, now)
           qual  == /\ above
                    /\ Qualifies(now, start[1], durationRef, lastNotifyTime,
                                 isEventOccurring)
       IN  /\ sample' = x
           /\ currentDb' = db
           /\ peak' = Max(peak, db)
           /\ sessionPeakRef' = Max(sessionPeakRef, db)
           /\ history' = IF now % 3 = 0 THEN PushHistory(history, db) ELSE history
           /\ isAlerting' = above
           /\ loudStartTimeRef' = start
           /\ eventPeakRef' = EventPeak(above, eventPeakRef, db)
           /\ isEventOccurring' = (isEventOccurring \/ qual)
           /\ emitTimers' = IF qual
                            THEN emitTimers \cup
                                 {[due |-> EmitDue(now), limit |-> durationRef,
                                   thr |-> thresholdRef, id |-> qualified + 1]}
                            ELSE emitTimers
           \* observations
           /\ windowMax' = Max(windowMax, db)
           /\ windowTicked' = TRUE
           /\ runStart' = IF db > thresholdRef
                          THEN (IF runStart = <<>> THEN <<now>> ELSE runStart)
                          ELSE <<>>
           /\ runQualifs' = IF db > thresholdRef
                            THEN (IF runStart = <<>> THEN 0 ELSE runQualifs)
                                 + (IF qual THEN 1 ELSE 0)
                            ELSE 0
           /\ brokenRun' = \/ brokenRun
                            \/ /\ db <= thresholdRef
                               /\ runStart # <<>>
                               /\ (now - framePeriod - runStart[1]) * 10
                                      < durationRef * 1000
           /\ lastQualAt' = IF qual THEN now ELSE lastQualAt
           /\ qualified' = IF qual THEN qualified + 1 ELSE qualified
           /\ runMax' = IF above
                        THEN Max(IF runStart = <<>> THEN 0 ELSE runMax, db)
                        ELSE 0
           /\ episodeMax' = IF qual THEN runMax'
                            ELSE IF episodeOpen /\ above THEN Max(episodeMax, db)
                            ELSE episodeMax
           /\ episodeOpen' = IF qual THEN TRUE ELSE (episodeOpen /\ above)
    /\ UNCHANGED << now, framePeriod, horizon, feed, tickNo, settingVars,
                    sessionHistory, sessionUpdates, lastNotifyTime, events,
                    notified, nextAgg, shownLabel, session0, logged,
                    aggExpected, aggAppended, aggTicked >>

(* the smoothing path of update, lines 242-250.  smoothedDbRef and the     *)
(* display value are held in thousandths of a dB, alpha in hundredths; the  *)
(* result of line 244 is rounded to the nearest thousandth.                 *)

\* variant of Ema: the weights exchanged
Ema_Swapped(alpha, db, smoothed) ==
    ((100 - alpha) * db * 1000 + alpha * smoothed + 50) \div 100

\* line 244: (alpha * currentDb) + (1 - alpha) * smoothedDbRef.current
Ema(alpha, db, smoothed) ==
    (alpha * db * 1000 + (100 - alpha) * smoothed + 50) \div 100

\* line 247
DisplayDue(t, last, interval) == t - last > interval

\* variant of Smooth: the EMA advances only on a tick that refreshes the
\* display
Smooth_OnRefresh(x) ==
    LET db == CurrentDb(BaseDb10(x), calibrationRef)
        s  == Ema(smoothingAlphaRef, db, smoothedDbRef)
    IN  IF DisplayDue(now, lastDisplayUpdateRef, displayIntervalRef)
        THEN /\ smoothedDbRef' = s
             /\ displayDb' = s
             /\ lastDisplayUpdateRef' = now
        ELSE UNCHANGED << smoothedDbRef, displayDb, lastDisplayUpdateRef >>

\* lines 242-250 for a buffer of level x
Smooth(x) ==
    LET db == CurrentDb(BaseDb10(x), calibrationRef)
        s  == Ema(smoothingAlphaRef, db, smoothedDbRef)
    IN  /\ smoothedDbRef' = s
        /\ IF DisplayDue(now, lastDisplayUpdateRef, displayIntervalRef)
           THEN /\ displayDb' = s
                /\ lastDisplayUpdateRef' = now
           ELSE UNCHANGED << displayDb, lastDisplayUpdateRef >>

\* one run of update by the only loop of a session, the smoothing path
\* left out
Tick(x) ==
    /\ ~ticked
    /\ TickBody(x)
    /\ ticked' = TRUE
    /\ UNCHANGED << displayDb, outerVars >>

Update == \E x \in Inputs : Tick(x)

\* one run of update by the only loop of a session, lines 224-312
FullTick(x) ==
    /\ ~ticked
    /\ TickBody(x)
    /\ Smooth(x)
    /\ ticked' = TRUE
    /\ UNCHANGED << stateVars, streamVars, loopVars, mainVars >>

FullUpdate == \E x \in Inputs : FullTick(x)

(* the setTimeout callback, lines 286-304 *)

\* variant of Emission: the callback ends at the notify call where
\* notifications are not supported
Emission_IfSupported(t) ==
    /\ t \in emitTimers
    /\ now >= t.due
    /\ notified' = Append(notified,
                          [title |-> NotifyTitle,
                           body  |-> NotifyBody(eventPeakRef, t.limit),
                           at    |-> now])
    /\ events' = IF platformOk
                 THEN PushEvent(events,
                                [db |-> eventPeakRef, label |-> getDbLabel(eventPeakRef),
                                 at |-> now, seq |-> logged + 1])
                 ELSE events
    /\ lastNotifyTime' = IF platformOk THEN now ELSE lastNotifyTime
    /\ isEventOccurring' = ~platformOk
    /\ eventPeakRef' = IF platformOk THEN 0 ELSE eventPeakRef
    /\ emitTimers' = emitTimers \ {t}
    /\ logged' = IF platformOk THEN logged + 1 ELSE logged
    /\ episodeMax' = 0
    /\ episodeOpen' = FALSE
    /\ UNCHANGED << tickObs, runMax, clockVars, settingVars, sample, currentDb, peak,
                    sessionPeakRef, history, sessionHistory, sessionUpdates,
                    isAlerting, loudStartTimeRef, nextAgg, restVars, runStart,
                    runQualifs, lastQualAt, qualified, windowMax, aggExpected,
                    aggAppended >>

Emission(t) ==
    /\ t \in emitTimers
    /\ now >= t.due
    /\ LET peakToSend == eventPeakRef
       IN  /\ notified' = Append(notified,
                                 [title |-> NotifyTitle,
                                  body  |-> NotifyBody(peakToSend, t.limit),
                                  at    |-> now])
           /\ events' = PushEvent(events,
                                  [db |-> peakToSend, label |-> getDbLabel(peakToSend),
                                   at |-> now, seq |-> logged + 1])
    /\ lastNotifyTime' = now
    /\ isEventOccurring' = FALSE
    /\ eventPeakRef' = 0
    /\ emitTimers' = emitTimers \ {t}
    /\ logged' = logged + 1
    /\ episodeMax' = 0
    /\ episodeOpen' = FALSE
    /\ UNCHANGED << tickObs, runMax, clockVars, settingVars, sample, currentDb, peak, sessionPeakRef,
                    history, sessionHistory, sessionUpdates, isAlerting,
                    loudStartTimeRef, nextAgg, restVars, runStart, runQualifs,
                    lastQualAt, qualified, windowMax, aggExpected, aggAppended >>

EmissionFire == \E t \in emitTimers : Emission(t)

(* the setInterval callback, lines 187-194, of the timer that the first pass  *)
(* of the effects starts.  setSessionHistory is given an                      *)
(* updater function: React runs it either at once (no update is pending on    *)
(* the component) or when it next renders the component, after the callback   *)
(* has returned.                                                              *)

\* variant of AggregatorFire: the callback resets the peak as well
AggregatorFire_ResetsPeak ==
    /\ phase # "boot"
    /\ now >= nextAgg
    /\ \/ /\ sessionHistory' = PushSession(sessionHistory, sessionPeakRef)
          /\ aggAppended' = Append(aggAppended, sessionPeakRef)
          /\ UNCHANGED sessionUpdates
       \/ /\ sessionUpdates' = sessionUpdates + 1
          /\ UNCHANGED << sessionHistory, aggAppended >>
    /\ sessionPeakRef' = 0
    /\ peak' = 0
    /\ nextAgg' = nextAgg + AggregateMs
    /\ aggExpected' = Append(aggExpected, windowMax)
    /\ windowMax' = 0
    /\ aggTicked' = Append(aggTicked, windowTicked)
    /\ windowTicked' = FALSE
    /\ UNCHANGED << peakObs, clockVars, settingVars, sample, currentDb, history,
                    isAlerting, loudStartTimeRef, eventPeakRef, isEventOccurring,
                    lastNotifyTime, emitTimers, events, notified, restVars,
                    runStart, runQualifs, lastQualAt, qualified, logged >>

AggregatorFire ==
    /\ phase # "boot"
    /\ now >= nextAgg
    /\ \/ /\ sessionHistory' = PushSession(sessionHistory, sessionPeakRef)
          /\ aggAppended' = Append(aggAppended, sessionPeakRef)
          /\ UNCHANGED sessionUpdates
       \/ /\ sessionUpdates' = sessionUpdates + 1
          /\ UNCHANGED << sessionHistory, aggAppended >>
    /\ sessionPeakRef' = 0
    /\ nextAgg' = nextAgg + AggregateMs
    /\ aggExpected' = Append(aggExpected, windowMax)
    /\ windowMax' = 0
    /\ aggTicked' = Append(aggTicked, windowTicked)
    /\ windowTicked' = FALSE
    /\ UNCHANGED << peakObs, clockVars, settingVars, sample, currentDb, peak, history,
                    isAlerting, loudStartTimeRef, eventPeakRef, isEventOccurring,
                    lastNotifyTime, emitTimers, events, notified, restVars,
                    runStart, runQualifs, lastQualAt, qualified, logged >>

(* a queued setSessionHistory updater, lines 188-192, run by React's render *)

RenderSession ==
    /\ sessionUpdates > 0
    /\ sessionHistory' = PushSession(sessionHistory, sessionPeakRef)
    /\ aggAppended' = Append(aggAppended, sessionPeakRef)
    /\ sessionUpdates' = sessionUpdates - 1
    /\ UNCHANGED << peakObs, tickObs, clockVars, settingVars, sample, currentDb, peak, sessionPeakRef,
                    history, isAlerting, loudStartTimeRef, eventPeakRef,
                    isEventOccurring, lastNotifyTime, emitTimers, events, notified,
                    nextAgg, restVars, runStart, runQualifs, lastQualAt, qualified,
                    logged, windowMax, aggExpected >>

(* the RESET button, line 375 *)

ResetPeak ==
    /\ peak # 0
    /\ peak' = 0
    /\ UNCHANGED << peakObs, tickObs, clockVars, settingVars, sample, currentDb, sessionPeakRef,
                    history, sessionHistory, sessionUpdates, isAlerting,
                    loudStartTimeRef, eventPeakRef, isEventOccurring,
                    lastNotifyTime, emitTimers, events, notified, nextAgg,
                    restVars, runStart, runQualifs, lastQualAt, qualified,
                    logged, windowMax, aggExpected, aggAppended >>

(* the next animation frame, line 311 *)

NextFrame ==
    /\ ticked
    /\ tickNo < horizon
    /\ \A t \in emitTimers : t.due > now
    /\ nextAgg > now
    /\ sessionUpdates = 0
    /\ now' = now + framePeriod
    /\ tickNo' = tickNo + 1
    /\ ticked' = FALSE
    /\ UNCHANGED << peakObs, tickObs, framePeriod, horizon, feed, settingVars, sample, currentDb,
                    peak, sessionPeakRef, history, sessionHistory, sessionUpdates,
                    isAlerting, loudStartTimeRef, eventPeakRef, isEventOccurring,
                    lastNotifyTime, emitTimers, events, notified, nextAgg,
                    restVars, runStart, runQualifs, lastQualAt, qualified,
                    logged, windowMax, aggExpected, aggAppended >>

(* the category text, lines 428-434: getDbLabel(Math.round(displayDb)) *)

RenderLabel ==
    /\ shownLabel' = getDbLabel(MathRoundMilli(displayDb))
    /\ UNCHANGED << peakObs, tickObs, clockVars, settingVars, sample, currentDb, peak, sessionPeakRef,
                    history, sessionHistory, sessionUpdates, isAlerting,
                    loudStartTimeRef, eventPeakRef, isEventOccurring,
                    lastNotifyTime, emitTimers, events, notified, nextAgg,
                    displayDb, brokenRun, session0, outerVars, runStart, runQualifs,
                    lastQualAt, qualified, logged, windowMax, aggExpected,
                    aggAppended >>

-----------------------------------------------------------------------------
(* Settings: React state, the refs the tick reads, localStorage              *)

\* useState defaults, lines 93-102 (durationThreshold in tenths of a second)
Defaults ==
    [threshold |-> 80, deviceId |-> "", durationThreshold |-> 20,
     calibrationOffset |-> 0, smoothingSpeed |-> "medium"]

\* the alphas table of lines 140 and 169, with its || 0.25 (hundredths)
Alphas(speed) ==
    CASE speed = "slow"   -> 10
      [] speed = "medium" -> 25
      [] speed = "fast"   -> 60
      [] OTHER            -> 25

\* variant of Intervals: no || 700
Intervals_NoDefault(speed) ==
    CASE speed = "slow"   -> 1000
      [] speed = "medium" -> 700
      [] speed = "fast"   -> 400
      [] OTHER            -> 0

\* the intervals table of lines 141 and 170, with its || 700
Intervals(speed) ==
    CASE speed = "slow"   -> 1000
      [] speed = "medium" -> 700
      [] speed = "fast"   -> 400
      [] OTHER            -> 700

\* variant of Record: the duration is not written
Record_NoDuration(th, dev, dur, cal, sp) ==
    [threshold |-> <<th>>, deviceId |-> <<dev>>, durationThreshold |-> <<>>,
     calibrationOffset |-> <<cal>>, smoothingSpeed |-> <<sp>>]

\* the object given to JSON.stringify, lines 158-164; a field of a parsed
\* record is <<>> when the record has no such key
Record(th, dev, dur, cal, sp) ==
    [threshold |-> <<th>>, deviceId |-> <<dev>>, durationThreshold |-> <<dur>>,
     calibrationOffset |-> <<cal>>, smoothingSpeed |-> <<sp>>]

\* `if (v)` on a number and on a string; `v !== undefined`
TruthyNum(f) == f # <<>> /\ f[1] # 0
TruthyStr(f) == f # <<>> /\ f[1] # ""
Defined(f)   == f # <<>>

\* the state that the load effect asks for, lines 123-146
Loaded(saved) ==
    IF saved = <<>> THEN Defaults
    ELSE LET r == saved[1]
         IN  [threshold         |-> IF TruthyNum(r.threshold) THEN r.threshold[1]
                                    ELSE Defaults.threshold,
              durationThreshold |-> IF TruthyNum(r.durationThreshold)
                                    THEN r.durationThreshold[1]
                                    ELSE Defaults.durationThreshold,
              calibrationOffset |-> IF Defined(r.calibrationOffset)
                                    THEN r.calibrationOffset[1]
                                    ELSE Defaults.calibrationOffset,
              smoothingSpeed    |-> IF TruthyStr(r.smoothingSpeed)
                                    THEN r.smoothingSpeed[1]
                                    ELSE Defaults.smoothingSpeed,
              deviceId          |-> IF TruthyStr(r.deviceId) THEN r.deviceId[1]
                                    ELSE Defaults.deviceId]

\* the persist effect, lines 157-173
Persist(th, dev, dur, cal, sp) ==
    /\ storage' = << Record(th, dev, dur, cal, sp) >>
    /\ thresholdRef' = th
    /\ durationRef' = dur
    /\ calibrationRef' = cal
    /\ smoothingAlphaRef' = Alphas(sp)
    /\ displayIntervalRef' = Intervals(sp)

-----------------------------------------------------------------------------
(* The monitoring session *)

\* the audio inputs that enumerateDevices reports, in its order
Mics == << "A", "B" >>

Session ==
    [streamRef |-> streamRef, tracks |-> tracks, closing |-> closing,
     stoppedLoops |-> stoppedLoops]

\* stopMonitoring up to its await, lines 320-327: the tracks of the stream
\* are stopped and close() is called on a context that is not closed.  The
\* analyser ref and the pending animation frames are left alone.
stopMonitoring(s) ==
    [streamRef    |-> 0,
     tracks       |-> IF s.streamRef # 0
                      THEN [s.tracks EXCEPT ![s.streamRef] = FALSE]
                      ELSE s.tracks,
     closing      |-> IF audioContext # 0 /\ ctxState[audioContext] # "closed"
                      THEN s.closing \cup {audioContext}
                      ELSE s.closing,
     stoppedLoops |-> s.stoppedLoops \cup
                      {[loop |-> l, at |-> tickNo] :
                          l \in loops \ {r.loop : r \in s.stoppedLoops}}]

\* variant of DeviceEffect: the cleanup leaves the history as it is
DeviceEffect_KeepsHistory(old, new) ==
    IF old = new
    THEN UNCHANGED << streamRef, tracks, closing, stoppedLoops, peak, history,
                      pendingStarts, starts >>
    ELSE LET s1 == IF old # "" THEN stopMonitoring(Session) ELSE Session
             s2 == IF new # "" THEN stopMonitoring(s1) ELSE s1
         IN  /\ streamRef' = s2.streamRef
             /\ tracks' = s2.tracks
             /\ closing' = s2.closing
             /\ stoppedLoops' = s2.stoppedLoops
             /\ IF old # ""
                THEN peak' = 0 /\ UNCHANGED history
                ELSE UNCHANGED << peak, history >>
             /\ IF new # ""
                THEN /\ pendingStarts' = pendingStarts \cup
                                         {[id |-> starts + 1, device |-> new]}
                     /\ starts' = starts + 1
                ELSE UNCHANGED << pendingStarts, starts >>

\* the effect on selectedDevice, lines 175-183: the cleanup of the previous
\* selection, then startMonitoring up to its await (lines 200-203)
DeviceEffect(old, new) ==
    IF old = new
    THEN UNCHANGED << streamRef, tracks, closing, stoppedLoops, peak, history,
                      pendingStarts, starts >>
    ELSE LET s1 == IF old # "" THEN stopMonitoring(Session) ELSE Session
             s2 == IF new # "" THEN stopMonitoring(s1) ELSE s1
         IN  /\ streamRef' = s2.streamRef
             /\ tracks' = s2.tracks
             /\ closing' = s2.closing
             /\ stoppedLoops' = s2.stoppedLoops
             /\ IF old # ""
                THEN peak' = 0 /\ history' = Zeros(HistoryLen)
                ELSE UNCHANGED << peak, history >>
             /\ IF new # ""
                THEN /\ pendingStarts' = pendingStarts \cup
                                         {[id |-> starts + 1, device |-> new]}
                     /\ starts' = starts + 1
                ELSE UNCHANGED << pendingStarts, starts >>

\* a render with new state and the effects whose dependencies changed
Commit(th, dev, dur, cal, sp) ==
    /\ threshold' = th
    /\ selectedDevice' = dev
    /\ durationThreshold' = dur
    /\ calibrationOffset' = cal
    /\ smoothingSpeed' = sp
    /\ IF << th, dev, dur, cal, sp >> #
          << threshold, selectedDevice, durationThreshold, calibrationOffset,
             smoothingSpeed >>
       THEN Persist(th, dev, dur, cal, sp)
       ELSE UNCHANGED << storage, settingVars, smoothingAlphaRef,
                         displayIntervalRef >>
    /\ DeviceEffect(selectedDevice, dev)

\* what no step of the settings or of the session touches
pipeVars == << clockVars, sample, currentDb, sessionPeakRef, sessionHistory,
               sessionUpdates, isAlerting, loudStartTimeRef, eventPeakRef,
               isEventOccurring, lastNotifyTime, emitTimers, events, notified,
               displayDb, shownLabel, brokenRun, session0, runStart, runQualifs,
               lastQualAt, qualified, logged, windowMax, aggExpected,
               aggAppended, peakObs, tickObs, mainVars, smoothVars >>

tickVars == << sample, currentDb, peak, sessionPeakRef, history, isAlerting,
               loudStartTimeRef, eventPeakRef, isEventOccurring, emitTimers,
               windowMax, runStart, runQualifs, brokenRun, lastQualAt, qualified,
               peakObs, sessionHistory, sessionUpdates, lastNotifyTime, events,
               notified, nextAgg, displayDb, shownLabel, session0, logged,
               aggExpected, aggAppended, tickObs, smoothVars >>

-----------------------------------------------------------------------------
(* Startup *)

\* the first pass of the effects, lines 122-197.  The load effect reads the
\* record, writes the refs and asks for the loaded state; the persist effect
\* of the same pass then runs with the state of the first render, which is
\* the default state, and writes the record and the refs from it.  The device
\* effect returns at line 176 ('' is selected); the aggregator is started.
Mount ==
    /\ phase = "boot"
    /\ bootRecord' = storage
    /\ Persist(Defaults.threshold, Defaults.deviceId, Defaults.durationThreshold,
               Defaults.calibrationOffset, Defaults.smoothingSpeed)
    /\ enumerating' = TRUE
    /\ nextAgg' = now + AggregateMs
    /\ phase' = "loading"
    /\ UNCHANGED << threshold, durationThreshold, calibrationOffset,
                    smoothingSpeed, selectedDevice, devices, userPicked, runNo,
                    streamVars, loopVars, peak, history, pipeVars >>

\* the render that the setState calls of the load effect (lines 127-145) ask for
Rerender ==
    /\ phase = "loading"
    /\ LET l == Loaded(bootRecord)
       IN  Commit(l.threshold, l.deviceId, l.durationThreshold,
                  l.calibrationOffset, l.smoothingSpeed)
    /\ phase' = "ready"
    /\ UNCHANGED << devices, enumerating, bootRecord, userPicked, runNo,
                    audioContext, ctxState, analyser, loops, tickedLoops,
                    audioErrors, nextAgg, pipeVars >>

\* selectedDevice as the callback of line 148 sees it: the value of the
\* render in which the effect ran, the first one
ClosureSelected == Defaults.deviceId

\* enumerateDevices().then(...), lines 148-154
Enumerated(mics) ==
    /\ phase = "ready"
    /\ enumerating
    /\ enumerating' = FALSE
    /\ devices' = mics
    /\ Commit(threshold,
              IF Len(mics) > 0 /\ ClosureSelected = "" THEN mics[1]
              ELSE selectedDevice,
              durationThreshold, calibrationOffset, smoothingSpeed)
    /\ UNCHANGED << phase, bootRecord, userPicked, runNo,
                    audioContext, ctxState, analyser, loops, tickedLoops,
                    audioErrors, nextAgg, pipeVars >>

EnumerateDone == \E mics \in {<< >>, Mics} : Enumerated(mics)

-----------------------------------------------------------------------------
(* Controls *)

MaxStarts == 2            \* startMonitoring calls explored in one launch
MaxRuns   == 2            \* launches explored

\* the ends of the threshold slider (line 380) and of the calibration slider
\* (line 409)
ThresholdChoices   == {30, 110}
CalibrationChoices == {-30, 30}
SpeedChoices       == {"slow", "medium", "fast"}

\* the device <select>, line 363
UserSelect(d) ==
    /\ phase = "ready"
    /\ starts < MaxStarts
    /\ \E i \in 1..Len(devices) : devices[i] = d
    /\ d # selectedDevice
    /\ userPicked' = TRUE
    /\ Commit(threshold, d, durationThreshold, calibrationOffset, smoothingSpeed)
    /\ UNCHANGED << devices, enumerating, phase, bootRecord, runNo,
                    audioContext, ctxState, analyser, loops, tickedLoops,
                    audioErrors, nextAgg, pipeVars >>

SelectDevice == \E d \in {"A", "B"} : UserSelect(d)

\* the threshold slider, line 380
SetThreshold(v) ==
    /\ phase = "ready"
    /\ v # threshold
    /\ Commit(v, selectedDevice, durationThreshold, calibrationOffset,
              smoothingSpeed)
    /\ UNCHANGED << devices, enumerating, phase, bootRecord, userPicked, runNo,
                    audioContext, ctxState, analyser, loops, tickedLoops,
                    audioErrors, nextAgg, pipeVars >>

\* the calibration slider, line 409
SetCalibration(v) ==
    /\ phase = "ready"
    /\ v # calibrationOffset
    /\ Commit(threshold, selectedDevice, durationThreshold, v, smoothingSpeed)
    /\ UNCHANGED << devices, enumerating, phase, bootRecord, userPicked, runNo,
                    audioContext, ctxState, analyser, loops, tickedLoops,
                    audioErrors, nextAgg, pipeVars >>

\* the smoothing buttons, lines 387-390
SetSmoothing(sp) ==
    /\ phase = "ready"
    /\ sp # smoothingSpeed
    /\ Commit(threshold, selectedDevice, durationThreshold, calibrationOffset, sp)
    /\ UNCHANGED << devices, enumerating, phase, bootRecord, userPicked, runNo,
                    audioContext, ctxState, analyser, loops, tickedLoops,
                    audioErrors, nextAgg, pipeVars >>

ChangeControl ==
    \/ \E v \in ThresholdChoices : SetThreshold(v)
    \/ \E v \in CalibrationChoices : SetCalibration(v)
    \/ \E sp \in SpeedChoices : SetSmoothing(sp)

\* the application is closed and launched again: the renderer starts from
\* its initial state (lines 90-120) and finds the record of the previous
\* launch.  (Used where no tick has run, so the pipeline is in its initial
\* state already.)
Relaunch ==
    /\ phase = "ready"
    /\ runNo < MaxRuns
    /\ runNo' = runNo + 1
    /\ phase' = "boot"
    /\ threshold' = Defaults.threshold
    /\ durationThreshold' = Defaults.durationThreshold
    /\ calibrationOffset' = Defaults.calibrationOffset
    /\ smoothingSpeed' = Defaults.smoothingSpeed
    /\ selectedDevice' = Defaults.deviceId
    /\ thresholdRef' = Defaults.threshold
    /\ durationRef' = Defaults.durationThreshold
    /\ calibrationRef' = Defaults.calibrationOffset
    /\ smoothingAlphaRef' = Alphas(Defaults.smoothingSpeed)
    /\ displayIntervalRef' = Intervals(Defaults.smoothingSpeed)
    /\ devices' = << >> /\ enumerating' = FALSE
    /\ bootRecord' = << >> /\ userPicked' = FALSE
    /\ streamRef' = 0 /\ tracks' = << >>
    /\ audioContext' = 0 /\ ctxState' = << >> /\ closing' = {}
    /\ analyser' = 0 /\ loops' = {} /\ tickedLoops' = {}
    /\ pendingStarts' = {} /\ audioErrors' = 0 /\ starts' = 0
    /\ stoppedLoops' = {}
    /\ UNCHANGED << storage, peak, history, nextAgg, pipeVars >>

-----------------------------------------------------------------------------
(* Session steps *)

\* the level an analyser delivers: a stream whose tracks are stopped is silent
LifeInputs == IF analyser # 0 /\ tracks[analyser] THEN Inputs ELSE {0}

\* getUserMedia resolves, lines 203-314: the stream and a new context are
\* stored over whatever the refs hold, and update() runs its first tick
AcquireOk(p, x) ==
    /\ p \in pendingStarts
    /\ pendingStarts' = pendingStarts \ {p}
    /\ LET id == Len(tracks) + 1
       IN  /\ tracks' = Append(tracks, TRUE)
           /\ ctxState' = Append(ctxState, "running")
           /\ streamRef' = id
           /\ audioContext' = id
           /\ analyser' = id
           /\ loops' = loops \cup {id}
           /\ tickedLoops' = tickedLoops \cup {id}
    /\ TickBody(x)
    /\ Smooth(x)
    /\ UNCHANGED << ticked, closing, audioErrors, starts, stoppedLoops, stateVars,
                    mainVars >>

\* variant of AcquireFail: update() is reached although no stream was acquired
AcquireFail_StillTicks(p) ==
    /\ p \in pendingStarts
    /\ pendingStarts' = pendingStarts \ {p}
    /\ audioErrors' = audioErrors + 1
    /\ TickBody(Loud90)
    /\ Smooth(Loud90)
    /\ UNCHANGED << ticked, stateVars, streamVars, analyser, loops, tickedLoops,
                    starts, stoppedLoops, mainVars >>

\* getUserMedia rejects, lines 315-317: console.error and nothing else
AcquireFail(p) ==
    /\ p \in pendingStarts
    /\ pendingStarts' = pendingStarts \ {p}
    /\ audioErrors' = audioErrors + 1
    /\ UNCHANGED << clockVars, settingVars, tickVars, stateVars, streamVars,
                    analyser, loops, tickedLoops, starts, stoppedLoops, mainVars >>

Acquire ==
    \/ \E p \in pendingStarts : \E x \in Inputs : AcquireOk(p, x)
    \/ \E p \in pendingStarts : AcquireFail(p)

\* close() settles, lines 328-332: whatever audioContext.current holds by
\* then is replaced by null
CloseDone(c) ==
    /\ c \in closing
    /\ closing' = closing \ {c}
    /\ ctxState' = [ctxState EXCEPT ![c] = "closed"]
    /\ audioContext' = 0
    /\ UNCHANGED << clockVars, settingVars, tickVars, stateVars, streamRef, tracks,
                    loopVars, mainVars >>

CloseSettles == \E c \in closing : CloseDone(c)

\* the animation-frame callback of loop l, lines 224-312
LifeTick(l, x) ==
    /\ l \in loops \ tickedLoops
    /\ IF analyser = 0
       THEN /\ loops' = loops \ {l}
            /\ UNCHANGED << clockVars, settingVars, tickVars, tickedLoops >>
       ELSE /\ TickBody(x)
            /\ Smooth(x)
            /\ tickedLoops' = tickedLoops \cup {l}
            /\ UNCHANGED << ticked, loops >>
    /\ UNCHANGED << stateVars, streamVars, analyser, pendingStarts, audioErrors,
                    starts, stoppedLoops, mainVars >>

LifeUpdate == \E l \in loops : \E x \in LifeInputs : LifeTick(l, x)

\* the next animation frame: every loop that resubmitted itself has run.
\* Frames are explored up to the horizon, and on until a pending emission
\* has fired.
LifeFrame ==
    /\ phase = "ready"
    /\ loops \subseteq tickedLoops
    /\ tickNo < horizon \/ emitTimers # {}
    /\ \A t \in emitTimers : t.due > now
    /\ nextAgg > now
    /\ sessionUpdates = 0
    /\ now' = now + framePeriod
    /\ tickNo' = tickNo + 1
    /\ tickedLoops' = {}
    /\ UNCHANGED << framePeriod, horizon, feed, ticked, settingVars, tickVars,
                    stateVars, streamVars, analyser, loops, pendingStarts,
                    audioErrors, starts, stoppedLoops, mainVars >>

-----------------------------------------------------------------------------
(* Main process, src/main.js *)

\* ipcMain.on('notify'), lines 93-113, for the next message sent by
\* sendNotification (src/unnamed/part_000: ipcRenderer.send('notify', ...))
MainNotify(outcome) ==
    /\ handled < Len(notified)
    /\ handled' = handled + 1
    /\ shown' = Append(shown, IF platformOk THEN outcome ELSE "unsupported")
    /\ UNCHANGED << platformOk, exportVars, clockVars, settingVars, tickVars,
                    stateVars, streamVars, loopVars >>

NotifyReceived == \E outcome \in {"show", "failed"} : MainNotify(outcome)

(* Log export: the bridge function exportLogs (src/unnamed/part_000 line 8) *)
(* and ipcMain.on('export-logs'), src/main.js lines 115-136.  A text is a   *)
(* sequence of tokens.  The timestamp string of a SoundEvent (App.tsx line  *)
(* 296: the time of day, to the second) is held as the second of the day.   *)

MaxExports == 2           \* 'export-logs' messages explored

\* new Date().toLocaleTimeString of line 296, for a time in ms
TimeOfDay(ms) == (ms \div 1000) % 86400

CsvHeader == "Timestamp,Level (dB),Description\n"

\* line 129: `"${l.timestamp}",${l.db},"${l.label}"`
CsvRow(l) == << "\"", TimeOfDay(l.at), "\",", l.db, ",\"", l.label, "\"" >>

\* rows.join('\n')
RECURSIVE JoinRows(_)
JoinRows(rows) ==
    IF rows = << >> THEN << >>
    ELSE IF Len(rows) = 1 THEN rows[1]
    ELSE rows[1] \o << "\n" >> \o JoinRows(Tail(rows))

\* variant of CsvText: the rows in reverse order
CsvText_Reversed(logs) ==
    << CsvHeader >>
        \o JoinRows([i \in 1..Len(logs) |-> CsvRow(logs[Len(logs) + 1 - i])])

\* lines 128-130: header + rows
CsvText(logs) ==
    << CsvHeader >> \o JoinRows([i \in 1..Len(logs) |-> CsvRow(logs[i])])

notExport == << clockVars, settingVars, tickVars, stateVars, streamVars,
                loopVars, platformOk, handled, shown >>

\* window.electron.exportLogs(logs): ipcRenderer.send('export-logs', logs).
\* The EXPORT control (App.tsx line 470) calls it with the event log, and
\* is rendered while the log is not empty; the handler is given the empty
\* list as well.
exportLogs(logs) ==
    /\ Len(exportMsgs) < MaxExports
    /\ exportMsgs' = Append(exportMsgs, logs)
    /\ UNCHANGED << exportsReceived, saveDialogs, written, notExport >>

ExportRequest == \E logs \in {<< >>, events} : exportLogs(logs)

\* the handler up to its await, lines 115-123: it returns at line 116 for
\* an empty list, and opens the save dialog otherwise
ExportReceived ==
    /\ exportsReceived < Len(exportMsgs)
    /\ exportsReceived' = exportsReceived + 1
    /\ LET logs == exportMsgs[exportsReceived + 1]
       IN  saveDialogs' = IF logs = << >> THEN saveDialogs
                          ELSE Append(saveDialogs, logs)
    /\ UNCHANGED << exportMsgs, written, notExport >>

\* the save dialog of the first waiting call is closed, lines 123-135: with
\* a path and a write that succeeds, with a path and a write that throws
\* (caught at line 132), or cancelled (filePath is undefined)
DialogClosed(outcome) ==
    /\ saveDialogs # << >>
    /\ saveDialogs' = Tail(saveDialogs)
    /\ written' = IF outcome = "saved"
                  THEN Append(written, [logs |-> Head(saveDialogs),
                                        text |-> CsvText(Head(saveDialogs))])
                  ELSE written
    /\ UNCHANGED << exportMsgs, exportsReceived, notExport >>

DialogCloses == \E outcome \in {"saved", "failed", "cancelled"} : DialogClosed(outcome)

-----------------------------------------------------------------------------
(* Initial states *)

\* the refs and the React state at the first frame of a monitoring session
\* (lines 90-120), with the default settings
Fresh ==
    /\ now = T0 /\ tickNo = 1 /\ ticked = FALSE
    /\ thresholdRef = 80 /\ durationRef = 20
    /\ sample = 0 /\ currentDb = 0
    /\ history = Zeros(HistoryLen)
    /\ sessionUpdates = 0
    /\ isAlerting = FALSE /\ loudStartTimeRef = <<>>
    /\ eventPeakRef = 0 /\ isEventOccurring = FALSE
    /\ emitTimers = {} /\ notified = <<>>
    /\ shownLabel = ""
    /\ smoothedDbRef = 0 /\ lastDisplayUpdateRef = 0
    /\ exportMsgs = <<>> /\ exportsReceived = 0
    /\ saveDialogs = <<>> /\ written = <<>>
    /\ runStart = <<>> /\ runQualifs = 0 /\ lastQualAt = 0 /\ qualified = 0
    /\ brokenRun = FALSE
    /\ aggExpected = <<>> /\ aggAppended = <<>> /\ aggTicked = <<>>

\* nothing has been measured or logged yet
Unused ==
    /\ peak = 0 /\ sessionPeakRef = 0 /\ windowMax = 0 /\ windowTicked = FALSE
    /\ lastNotifyTime = 0
    /\ events = <<>> /\ logged = 0
    /\ sessionHistory = <<>> /\ session0 = <<>>

\* a session on the first input has been running since startup, no record
\* was found at startup, and the settings are the ones the tick reads
MonitoringAt(sp) ==
    /\ threshold = thresholdRef
    /\ durationThreshold = durationRef
    /\ calibrationOffset = calibrationRef
    /\ smoothingSpeed = sp
    /\ smoothingAlphaRef = Alphas(smoothingSpeed)
    /\ displayIntervalRef = Intervals(smoothingSpeed)
    /\ selectedDevice = Mics[1] /\ devices = Mics
    /\ storage = << Record(threshold, selectedDevice, durationThreshold,
                           calibrationOffset, smoothingSpeed) >>
    /\ phase = "ready" /\ enumerating = FALSE
    /\ bootRecord = << >> /\ userPicked = FALSE /\ runNo = 1
    /\ streamRef = 1 /\ tracks = << TRUE >>
    /\ audioContext = 1 /\ ctxState = << "running" >> /\ closing = {}
    /\ analyser = 1 /\ loops = {1} /\ tickedLoops = {}
    /\ pendingStarts = {} /\ audioErrors = 0 /\ starts = 1
    /\ stoppedLoops = {}
    /\ runMax = 0 /\ episodeMax = 0 /\ episodeOpen = FALSE

Monitoring == MonitoringAt(Defaults.smoothingSpeed)

\* the main process has received nothing yet
Supported == platformOk = TRUE /\ handled = 0 /\ shown = << >>

\* the renderer before its first render, lines 90-120
Booting ==
    /\ threshold = Defaults.threshold
    /\ durationThreshold = Defaults.durationThreshold
    /\ calibrationOffset = Defaults.calibrationOffset
    /\ smoothingSpeed = Defaults.smoothingSpeed
    /\ selectedDevice = Defaults.deviceId
    /\ calibrationRef = Defaults.calibrationOffset
    /\ smoothingAlphaRef = Alphas(Defaults.smoothingSpeed)
    /\ displayIntervalRef = Intervals(Defaults.smoothingSpeed)
    /\ devices = << >> /\ enumerating = FALSE
    /\ phase = "boot"
    /\ bootRecord = << >> /\ userPicked = FALSE /\ runNo = 1
    /\ streamRef = 0 /\ tracks = << >>
    /\ audioContext = 0 /\ ctxState = << >> /\ closing = {}
    /\ analyser = 0 /\ loops = {} /\ tickedLoops = {}
    /\ pendingStarts = {} /\ audioErrors = 0 /\ starts = 0
    /\ stoppedLoops = {}
    /\ runMax = 0 /\ episodeMax = 0 /\ episodeOpen = FALSE
    /\ displayDb = 0
    /\ nextAgg = T0

\* the aggregator runs since the component was mounted; its next firing is
\* at most one interval after the first frame
AggPhase == 3000

Init ==
    /\ Fresh /\ Unused
    /\ feed = "any" /\ horizon = MaxTicks
    /\ framePeriod \in {500, 1000}
    /\ calibrationRef = 0
    /\ displayDb = 0
    /\ nextAgg = T0 + AggPhase
    /\ Monitoring /\ Supported

Next ==
    \/ Update
    \/ EmissionFire
    \/ AggregatorFire
    \/ RenderSession
    \/ NextFrame

Spec == Init /\ [][Next]_vars

(* A component that has been running for hours: a sustained episode every    *)
(* PriorGap ms during the last intervals, the most recent one notified       *)
(* PriorGap ms before the first frame explored, quiet since.                 *)

PriorGap == 9000

PriorEvents(n) ==
    [i \in 1..n |-> [db |-> 90, label |-> getDbLabel(90),
                     at |-> T0 - PriorGap * i, seq |-> n + 1 - i]]

PriorSession(n) == [i \in 1..n |-> IF i > n - 15 THEN 90 ELSE 0]

InitLong ==
    /\ Fresh
    /\ feed = "any" /\ horizon = FewTicks
    /\ framePeriod = 1000
    /\ calibrationRef = 0
    /\ displayDb = 0
    /\ nextAgg = T0 + 1000
    /\ peak = 90 /\ sessionPeakRef = 90 /\ windowMax = 90 /\ windowTicked = TRUE
    /\ lastNotifyTime = T0 - PriorGap
    /\ \E n \in {EventCap - 1, EventCap} :
          events = PriorEvents(n) /\ logged = n
    /\ \E n \in {SessionCap - 1, SessionCap} :
          sessionHistory = PriorSession(n) /\ session0 = PriorSession(n)
    /\ Monitoring /\ Supported

NextUi == Next \/ ResetPeak

SpecLong == InitLong /\ [][NextUi]_vars

(* The estimator alone, over every calibration offset of the control         *)
(* (line 409: min -30, max 30)                                               *)

InitReading ==
    /\ Fresh /\ Unused
    /\ feed = "reading" /\ horizon = ReadTicks
    /\ framePeriod = 1000
    /\ calibrationRef \in -30..30
    /\ displayDb = 0
    /\ nextAgg = T0 + 1000
    /\ Monitoring /\ Supported

NextReading == Update \/ AggregatorFire \/ RenderSession \/ NextFrame

SpecReading == InitReading /\ [][NextReading]_vars

(* Labels: of logged events and of the category text *)

DisplayValues == {100 * d : d \in {e \in 0..MaxDisplay10 : e % 100 \in {0, 94, 95}}}

InitLabel ==
    /\ Fresh /\ Unused
    /\ feed = "label" /\ horizon = FewTicks
    /\ framePeriod = 1000
    /\ calibrationRef = 0
    /\ displayDb \in DisplayValues
    /\ nextAgg = T0 + AggPhase
    /\ Monitoring /\ Supported

NextLabel == Next \/ RenderLabel

SpecLabel == InitLabel /\ [][NextLabel]_vars

(* The end-to-end scenarios of the specification, at several frame rates *)

InitSteady ==
    /\ Fresh /\ Unused
    /\ feed = "steady"
    /\ framePeriod \in {250, 500, 1000}
    /\ horizon = (6000 \div framePeriod) + 1
    /\ calibrationRef = 0
    /\ displayDb = 0
    /\ nextAgg = T0 + AggPhase
    /\ Monitoring /\ Supported

SpecSteady == InitSteady /\ [][NextUi]_vars

InitTwice ==
    /\ Fresh /\ Unused
    /\ feed = "twice"
    /\ framePeriod \in {250, 500, 1000}
    /\ horizon = (12000 \div framePeriod) + 1
    /\ calibrationRef = 0
    /\ displayDb = 0
    /\ nextAgg = T0 + AggPhase
    /\ Monitoring /\ Supported

SpecTwice == InitTwice /\ [][NextUi]_vars

(* Startup and the controls, over the records that storage may hold: none,  *)
(* records of earlier versions that lack keys, and values that no control   *)
(* of this version produces                                                 *)

SavedRecords ==
    [threshold         : {<< >>, << 0 >>, << 95 >>, << 500 >>},
     deviceId          : {<< >>, << "B" >>},
     durationThreshold : {<< >>, << 50 >>, << 200 >>},
     calibrationOffset : {<< >>, << -12 >>, << 45 >>},
     smoothingSpeed    : {<< >>, << "fast" >>, << "turbo" >>}]

InitSettings ==
    /\ Fresh /\ Unused /\ Booting /\ Supported
    /\ feed = "any" /\ horizon = FewTicks
    /\ framePeriod = 1000
    /\ storage \in {<< >>} \cup {<< r >> : r \in SavedRecords}

NextSettings ==
    \/ Mount
    \/ Rerender
    \/ EnumerateDone
    \/ SelectDevice
    \/ ChangeControl
    \/ Relaunch

SpecSettings == InitSettings /\ [][NextSettings]_vars

(* Sessions: startup, device changes, acquisition, and the ticks of every    *)
(* loop that is alive                                                        *)

LifeTicks == 3            \* frames explored by the session specification

InitLife ==
    /\ Fresh /\ Unused /\ Booting /\ Supported
    /\ feed = "life" /\ horizon = LifeTicks
    /\ framePeriod = 1000
    /\ storage \in {<< >>,
                    << Record(Defaults.threshold, Mics[2],
                              Defaults.durationThreshold,
                              Defaults.calibrationOffset,
                              Defaults.smoothingSpeed) >>}

NextLife ==
    \/ Mount
    \/ Rerender
    \/ EnumerateDone
    \/ SelectDevice
    \/ Acquire
    \/ CloseSettles
    \/ LifeUpdate
    \/ EmissionFire
    \/ LifeFrame

SpecLife == InitLife /\ [][NextLife]_vars

\* a timer that is due fires, a frame that is due is drawn, and the
\* callbacks of a frame run
SpecLifeFair ==
    /\ SpecLife
    /\ WF_vars(EmissionFire)
    /\ WF_vars(LifeFrame)
    /\ WF_vars(LifeUpdate)

(* Sessions at every smoothing speed: startup from a record that names a    *)
(* device and a speed (none, a speed of the table, or one that is not in    *)
(* the table), the smoothing buttons, and the ticks of the session          *)

SpeedRecords ==
    {Record(Defaults.threshold, Mics[2], Defaults.durationThreshold,
            Defaults.calibrationOffset, sp) : sp \in {"", "slow", "fast", "turbo"}}

InitSpeed ==
    /\ Fresh /\ Unused /\ Booting /\ Supported
    /\ feed = "life" /\ horizon = ReadTicks
    /\ framePeriod = 1000
    /\ storage \in {<< r >> : r \in SpeedRecords}

SmoothingChanged == \E sp \in SpeedChoices : SetSmoothing(sp)

NextSpeed ==
    \/ Mount
    \/ Rerender
    \/ EnumerateDone
    \/ SmoothingChanged
    \/ Acquire
    \/ LifeUpdate
    \/ LifeFrame

SpecSpeed == InitSpeed /\ [][NextSpeed]_vars

(* Sessions and the aggregator: startup without a record or with a record  *)
(* that names the second input, the device change made when the inputs are  *)
(* enumerated, and acquisition, over an interval of the aggregator and      *)
(* beyond, two frames to an interval                                        *)

AggTicks == 4             \* frames explored with the aggregator

InitAgg ==
    /\ Fresh /\ Unused /\ Booting /\ Supported
    /\ feed = "life" /\ horizon = AggTicks
    /\ framePeriod = 15000
    /\ storage \in {<< >>,
                    << Record(Defaults.threshold, Mics[2],
                              Defaults.durationThreshold,
                              Defaults.calibrationOffset,
                              Defaults.smoothingSpeed) >>}

NextAgg ==
    \/ Mount
    \/ Rerender
    \/ EnumerateDone
    \/ Acquire
    \/ CloseSettles
    \/ LifeUpdate
    \/ EmissionFire
    \/ AggregatorFire
    \/ RenderSession
    \/ LifeFrame

SpecAgg == InitAgg /\ [][NextAgg]_vars

(* The steady scenario with the main process, on a platform with and on one *)
(* without notifications                                                    *)

InitNotify ==
    /\ Fresh /\ Unused
    /\ feed = "steady"
    /\ framePeriod \in {500, 1000}
    /\ horizon = (6000 \div framePeriod) + 1
    /\ calibrationRef = 0
    /\ displayDb = 0
    /\ nextAgg = T0 + AggPhase
    /\ Monitoring
    /\ platformOk \in BOOLEAN /\ handled = 0 /\ shown = << >>

NextNotify == Next \/ NotifyReceived

SpecNotify == InitNotify /\ [][NextNotify]_vars

(* The display: silence or a loud level in every frame, at two frame rates, *)
(* at each smoothing speed.                                                 *)

SmoothTicks == 8          \* frames explored by the display specification

InitSmooth ==
    /\ Fresh /\ Unused
    /\ feed = "smooth" /\ horizon = SmoothTicks
    /\ framePeriod \in {250, 500}
    /\ calibrationRef = 0
    /\ displayDb = 0
    /\ nextAgg = T0 + AggPhase
    /\ \E sp \in SpeedChoices : MonitoringAt(sp)
    /\ Supported

NextSmooth ==
    \/ FullUpdate
    \/ EmissionFire
    \/ AggregatorFire
    \/ RenderSession
    \/ NextFrame

SpecSmooth == InitSmooth /\ [][NextSmooth]_vars

(* The threshold slider moved while a loud stream is measured: below the    *)
(* level, above it, and back to the default.                                *)

InitThreshold ==
    /\ Fresh /\ Unused
    /\ feed = "life" /\ horizon = SmoothTicks
    /\ framePeriod = 500
    /\ calibrationRef = 0
    /\ displayDb = 0
    /\ nextAgg = T0 + AggPhase
    /\ Monitoring /\ Supported

ThresholdChanged ==
    \E v \in ThresholdChoices \cup {Defaults.threshold} : SetThreshold(v)

NextThreshold == NextSmooth \/ ThresholdChanged

SpecThreshold == InitThreshold /\ [][NextThreshold]_vars

(* A constant stream: a loud level in every frame, or silence in every      *)
(* frame after three loud frames, ten frames a second, at each speed.       *)

SettleTicks == 70         \* frames explored with a constant stream

InitSettle ==
    /\ Fresh /\ Unused
    /\ feed \in {"life", "decay"} /\ horizon = SettleTicks
    /\ framePeriod = 100
    /\ calibrationRef = 0
    /\ displayDb = 0
    /\ nextAgg = T0 + AggPhase
    /\ \E sp \in SpeedChoices : MonitoringAt(sp)
    /\ Supported

SpecSettle == InitSettle /\ [][NextSmooth]_vars

(* Log export: a session with an empty log, a log of two events or a full   *)
(* log, and a loud source.                                                  *)

InitExport ==
    /\ Fresh
    /\ feed = "life" /\ horizon = FewTicks
    /\ framePeriod = 1000
    /\ calibrationRef = 0
    /\ displayDb = 0
    /\ nextAgg = T0 + AggPhase
    /\ peak = 0 /\ sessionPeakRef = 0 /\ windowMax = 0 /\ windowTicked = FALSE
    /\ sessionHistory = <<>> /\ session0 = <<>>
    /\ \E n \in {0, 2, EventCap} :
          /\ events = PriorEvents(n) /\ logged = n
          /\ lastNotifyTime = IF n = 0 THEN 0 ELSE T0 - PriorGap
    /\ Monitoring /\ Supported

NextExport == Next \/ ExportRequest \/ ExportReceived \/ DialogCloses

SpecExport == InitExport /\ [][NextExport]_vars

-----------------------------------------------------------------------------
(* Properties *)

Pending == Cardinality(emitTimers)

TickRan == ticked \/ tickNo > 1

RunMs == IF runStart = <<>> THEN 0 ELSE now - runStart[1]

\* C1 (as stated): every contiguous run above threshold whose length has
\* reached durationRef has been given exactly one emission, never none and
\* never more than one.
C1_OnePerEpisode ==
    /\ runQualifs <= 1
    /\ (ticked /\ runStart # <<>> /\ RunMs >= durationRef * 100) => runQualifs = 1

\* C1 (amended): every qualification yields exactly one notification and one
\* appended SoundEvent, with at most one emission pending; a run has no
\* qualification before it has lasted durationRef, and its k-th qualification
\* comes no sooner than durationRef + (k-1) * 8000 ms after its start.
C1_OnePerQualification ==
    /\ Pending <= 1
    /\ qualified = Len(notified) + Pending
    /\ logged = Len(notified)
    /\ runQualifs >= 1 =>
          /\ runStart # <<>>
          /\ lastQualAt - runStart[1] >=
                durationRef * 100 + (runQualifs - 1) * (CooldownMs + EmitDelayMs)

C1_Witness == runQualifs = 2 /\ Len(notified) = 2 /\ logged = 2

\* C2: an emission is scheduled only by a tick above threshold of a run of
\* ticks above threshold that has lasted durationRef without interruption;
\* loudStartTimeRef is the first tick of that run, so a tick at or below the
\* threshold discards the time accumulated before it.
C2_ContiguousOnly ==
    /\ [][ qualified' > qualified =>
             /\ currentDb' > thresholdRef
             /\ runStart' # <<>>
             /\ (now - runStart'[1]) * 10 >= durationRef * 1000
             /\ Pending' = Pending + 1 ]_vars
    /\ [](loudStartTimeRef = runStart)
    /\ [](qualified = 0 => (notified = <<>> /\ logged = 0))

C2_Witness ==
    /\ brokenRun
    /\ qualified = 1 /\ lastQualAt = now
    /\ runStart # <<>> /\ runStart[1] > T0

\* C3: consecutive notifications, and consecutive SoundEvents of the log, are
\* more than 7000 ms apart, and lastNotifyTime is the time of the latest one.
C3_CooldownBetweenNotifications ==
    /\ \A i \in 2..Len(notified) : notified[i].at - notified[i-1].at > CooldownMs
    /\ \A i \in 2..Len(events) : events[i-1].at - events[i].at > CooldownMs
    /\ notified # <<>> => lastNotifyTime = notified[Len(notified)].at

C3_Witness == Len(notified) = 2 /\ Len(events) = 2 /\ brokenRun /\ runQualifs = 1

\* C4: a constant 90 for 2.5 s, then silence: exactly one SoundEvent, with
\* db = 90, and exactly one notify call, with the given title and body, sent
\* once the 1000 ms delay has expired.
C4_SteadyOnce ==
    /\ Len(notified) <= 1 /\ Len(events) = Len(notified)
    /\ Elapsed < 3000 => notified = <<>>
    /\ (Elapsed >= 3000 /\ emitTimers = {}) =>
          /\ Len(notified) = 1
          /\ notified[1].title = "Sustained Noise Detected!"
          /\ notified[1].body = << "Level reached ", 90, " dB for ", 2, "+ sec." >>
          /\ events[1].db = 90

C4_Witness ==
    /\ Len(notified) = 1 /\ Len(events) = 1 /\ events[1].db = 90
    /\ ticked /\ currentDb = 0 /\ ~isAlerting
    /\ notified[1].at = now

\* C5: two loud episodes of 3 s, 4 s of silence between them: exactly one
\* notification; the second episode reaches the duration, and at each of its
\* ticks the cooldown has not elapsed.
C5_SecondSuppressed ==
    /\ Len(notified) <= 1
    /\ (Elapsed >= 3000 /\ emitTimers = {}) => Len(notified) = 1
    /\ (ticked /\ Elapsed >= 7000 /\ isAlerting) =>
          ~(now - lastNotifyTime > 7000)
    /\ (ticked /\ Elapsed >= 9000 /\ Elapsed <= 10000) =>
          /\ isAlerting
          /\ (now - loudStartTimeRef[1]) * 10 >= durationRef * 1000

C5_Witness ==
    /\ ticked /\ Elapsed = 10000 /\ isAlerting
    /\ now - loudStartTimeRef[1] = 3000
    /\ Len(notified) = 1 /\ emitTimers = {}

\* C6 (as stated): a captured peak of 90 is labelled 'Vacuum / Traffic', and
\* a value of 100 or more 'Potential Hearing Damage!'.
C6_NinetyIsVacuum ==
    /\ \A i \in 1..Len(events) :
          /\ events[i].db = 90 => events[i].label = "Vacuum / Traffic"
          /\ events[i].db >= 100 => events[i].label = "Potential Hearing Damage!"
    /\ (shownLabel # "" /\ MathRoundMilli(displayDb) >= 100) =>
          shownLabel = "Potential Hearing Damage!"

\* C6 (amended): 80..89 is 'Vacuum / Traffic' and 90..99 is 'Sound System';
\* below 30 is 'Whisper Quiet' and 100 or more is 'Potential Damage!'; the
\* label of a SoundEvent is the label of its db.
BandOf(db, label) ==
    /\ db < 30 => label = "Whisper Quiet"
    /\ (db >= 80 /\ db <= 89) => label = "Vacuum / Traffic"
    /\ (db >= 90 /\ db <= 99) => label = "Sound System"
    /\ db >= 100 => label = "Potential Damage!"

C6_Bands ==
    /\ \A i \in 1..Len(events) : BandOf(events[i].db, events[i].label)
    /\ shownLabel # "" => BandOf(MathRoundMilli(displayDb), shownLabel)

C6_Witness ==
    /\ Len(events) = 1 /\ events[1].db = 90 /\ events[1].label = "Sound System"
    /\ displayDb = 29500 /\ shownLabel = "Quiet Library"

\* C7 (as stated): a buffer of zeros reads 0 whatever the calibration offset.
C7_SilenceIsZero == (TickRan /\ sample = 0) => currentDb = 0

\* C7 (amended): a buffer of zeros reads 0 for an offset of 0 or less, and the
\* offset itself for a positive offset.
C7_SilenceIsOffset ==
    (TickRan /\ sample = 0) =>
        /\ calibrationRef <= 0 => currentDb = 0
        /\ calibrationRef > 0 => currentDb = calibrationRef

C7_Witness == ticked /\ sample = 0 /\ calibrationRef = 30 /\ currentDb = 30

\* C8: the reading is the rounded, clamped sum of base value and offset, a
\* non-negative integer, and so are the peaks and every buffer entry.
C8_NonNegative ==
    /\ currentDb \in Nat
    /\ TickRan =>
          LET v == BaseDb10(sample) + 10 * calibrationRef
          IN  IF v <= 0 THEN currentDb = 0
              ELSE 10 * currentDb <= v + 5 /\ v + 5 < 10 * currentDb + 10
    /\ peak \in Nat /\ sessionPeakRef \in Nat /\ eventPeakRef \in Nat
    /\ \A i \in 1..Len(history) : history[i] \in Nat
    /\ \A i \in 1..Len(sessionHistory) : sessionHistory[i] \in Nat

C8_Witness ==
    /\ calibrationRef = 0 - 30 /\ sample = 1 /\ currentDb = 0
    /\ peak = 50 /\ sessionHistory = << 50 >> /\ history[HistoryLen] = 50

\* C9: the live history always has 100 entries, the session buffer at most
\* 480 and the log at most 50; the log is newest first, with the oldest
\* events evicted; the session buffer holds the latest values, oldest first.
SessionAll == session0 \o aggAppended

C9_BoundedBuffers ==
    /\ Len(history) = 100
    /\ Len(sessionHistory) <= 480
    /\ Len(events) <= 50
    /\ Len(events) = (IF logged < 50 THEN logged ELSE 50)
    /\ \A i \in 1..Len(events) : events[i].seq = logged + 1 - i
    /\ Len(sessionHistory) = (IF Len(SessionAll) < 480 THEN Len(SessionAll) ELSE 480)
    /\ \A i \in 1..Len(sessionHistory) :
          sessionHistory[i] = SessionAll[Len(SessionAll) - Len(sessionHistory) + i]

C9_Witness ==
    /\ Len(events) = 50 /\ logged = 51 /\ events[1].at = now
    /\ Len(session0) = 480 /\ Len(aggAppended) = 1 /\ Len(sessionHistory) = 480

\* C10: every value appended to the session buffer is the largest reading of
\* the interval that the firing closed.
C10_AppendsIntervalMax ==
    \A i \in 1..Len(aggAppended) : aggAppended[i] = aggExpected[i]

-----------------------------------------------------------------------------
(* Sessions *)

Live == {i \in 1..Len(tracks) : tracks[i]}

\* C11: after stopMonitoring, a loop of the stopped session runs at most the
\* callback that was already submitted (the one of the next frame) and no
\* tick after it
C11_StoppedLoopHalts ==
    \A r \in stoppedLoops : r.loop \in tickedLoops => tickNo <= r.at + 1

\* C12: at most one tick loop is alive, so that update runs at most once in
\* a frame, after any sequence of device selections
C12_OneLoop == Cardinality(loops) <= 1 /\ Cardinality(tickedLoops) <= 1

\* C13: every stream that is not stopped is the one streamRef holds (so at
\* most one is, and the next stopMonitoring stops it), also when a second
\* startMonitoring begins while the first awaits getUserMedia
C13_OneLiveStream == \A i \in Live : i = streamRef

-----------------------------------------------------------------------------
(* Notifications *)

\* C15: every emission appends its SoundEvent and ends with isEventOccurring
\* false, and what the main process does with the message (shown, failed,
\* notifications not supported) changes nothing in the renderer
C15_LoggedWhateverThePlatform ==
    /\ [](logged = Len(notified) /\ Len(events) = logged /\ handled <= logged)
    /\ [][ Len(notified') # Len(notified) =>
             /\ Len(events') = Len(events) + 1
             /\ events'[1].db = eventPeakRef
             /\ ~isEventOccurring' ]_vars
    /\ [][ handled' # handled =>
             UNCHANGED << events, logged, isEventOccurring, lastNotifyTime,
                          eventPeakRef, emitTimers >> ]_vars

\* the platform has told the main process that it cannot notify, and the
\* event is in the log
C15_Witness ==
    /\ ~platformOk /\ handled = 1 /\ shown = << "unsupported" >>
    /\ Len(events) = 1 /\ events[1].db = 90
    /\ ~isEventOccurring /\ emitTimers = {}

\* C16: an emission is due 1000 ms or more after its qualification tick; a
\* pending emission goes away only by being delivered, once, when due, and
\* leaves isEventOccurring false; and every pending emission is delivered,
\* whether or not the level drops, monitoring stops or the device changes
\* in between
C16_EmissionDelivered ==
    /\ [][ \A t \in emitTimers' \ emitTimers : t.due >= now + EmitDelayMs ]_vars
    /\ [][ \A t \in emitTimers \ emitTimers' :
             /\ now >= t.due
             /\ Len(notified') = Len(notified) + 1
             /\ logged' = logged + 1
             /\ ~isEventOccurring' ]_vars
    /\ [](qualified = Len(notified) + Pending)
    /\ (Pending > 0) ~> (Pending = 0)

\* the user changed the device, which stopped monitoring, between the
\* qualification and the delivery of the one emission
C16_Witness ==
    /\ Len(notified) = 1 /\ Pending = 0 /\ ~isEventOccurring
    /\ userPicked
    /\ \E r \in stoppedLoops :
          LET stopMs == T0 + (r.at - 1) * framePeriod
          IN  lastQualAt <= stopMs /\ stopMs < notified[1].at

-----------------------------------------------------------------------------
(* Settings *)

\* the deviceId of the record found at startup, if it has one
BootDevice ==
    IF bootRecord # << >> /\ TruthyStr(bootRecord[1].deviceId)
    THEN bootRecord[1].deviceId ELSE << >>

EnumerationDone == phase = "ready" /\ ~enumerating

\* C17: once the enumeration at startup has completed, the selected device
\* is the persisted deviceId when there is one, and the first available
\* input only when there is none
C17_PersistedDeviceKept ==
    (EnumerationDone /\ ~userPicked) =>
        IF BootDevice # << >> THEN selectedDevice = BootDevice[1]
        ELSE devices # << >> => selectedDevice = devices[1]

\* C18: once a change of a control or of the device has been processed, the
\* stored record holds the current settings, all five, and the refs that the
\* tick reads are the current settings; and the settings that a launch
\* restores from the record of the previous launch are the ones written
C18_PersistedAndReadMatch ==
    /\ [](phase = "ready" =>
            /\ storage # << >>
            /\ storage[1].threshold = << threshold >>
            /\ storage[1].deviceId = << selectedDevice >>
            /\ storage[1].durationThreshold = << durationThreshold >>
            /\ storage[1].calibrationOffset = << calibrationOffset >>
            /\ storage[1].smoothingSpeed = << smoothingSpeed >>
            /\ thresholdRef = threshold
            /\ durationRef = durationThreshold
            /\ calibrationRef = calibrationOffset
            /\ smoothingAlphaRef = Alphas(smoothingSpeed)
            /\ displayIntervalRef = Intervals(smoothingSpeed))
    /\ [][ (phase = "loading" /\ phase' = "ready" /\ runNo > 1) =>
             /\ bootRecord # << >>
             /\ bootRecord[1].threshold = << threshold' >>
             /\ bootRecord[1].durationThreshold = << durationThreshold' >>
             /\ bootRecord[1].calibrationOffset = << calibrationOffset' >>
             /\ bootRecord[1].smoothingSpeed = << smoothingSpeed' >> ]_vars

\* the second launch has restored what the first one wrote after the user
\* moved three controls; the duration came from the record of the first
C18_Witness ==
    /\ runNo = 2 /\ phase = "ready"
    /\ bootRecord = << Record(110, "A", 50, -30, "slow") >>
    /\ threshold = 110 /\ durationThreshold = 50
    /\ calibrationOffset = -30 /\ smoothingSpeed = "slow"
    /\ thresholdRef = 110 /\ durationRef = 50 /\ calibrationRef = -30

\* C19: in every reachable state the threshold is in [30,120], the duration
\* in [0.1,10] s, the calibration offset in [-30,30] and the smoothing speed
\* one of slow, medium, fast
C19_SettingsInRange ==
    /\ threshold \in 30..120
    /\ durationThreshold \in 1..100
    /\ calibrationOffset \in -30..30
    /\ smoothingSpeed \in SpeedChoices

-----------------------------------------------------------------------------
(* Event peak *)

\* C20: the db of an emitted SoundEvent is the largest currentDb of the
\* above-threshold ticks of its own episode, from the start of the run that
\* qualified up to the emission; readings of an earlier run that ended
\* without qualifying do not contribute
C20_OwnEpisodePeak ==
    [][ \A t \in emitTimers \ emitTimers' : events'[1].db = episodeMax ]_vars

-----------------------------------------------------------------------------
(* Log export *)

\* C21: no file is written for an empty log; a file that is written holds
\* the header line 'Timestamp,Level (dB),Description' and then one row per
\* SoundEvent of the log it was asked to export, in log order, each of the
\* form "<timestamp>",<db>,"<label>", the rows separated by line feeds
C21_CsvText ==
    \A k \in 1..Len(written) :
        LET logs == written[k].logs
            text == written[k].text
            n    == Len(logs)
        IN  /\ n > 0
            /\ Len(text) = 8 * n
            /\ text[1] = "Timestamp,Level (dB),Description\n"
            /\ \A i \in 1..n :
                  LET o == 8 * (i - 1) + 1
                  IN  /\ text[o + 1] = "\""
                      /\ text[o + 2] = (logs[i].at \div 1000) % 86400
                      /\ text[o + 3] = "\","
                      /\ text[o + 4] = logs[i].db
                      /\ text[o + 5] = ",\""
                      /\ text[o + 6] = logs[i].label
                      /\ text[o + 7] = "\""
                      /\ i < n => text[o + 8] = "\n"

\* the handler has received an empty log and a log of several events whose
\* newest event was logged during the session, and has written one file
C21_Witness ==
    /\ exportsReceived = 2 /\ saveDialogs = << >>
    /\ exportMsgs[1] = << >>
    /\ Len(exportMsgs[2]) > 1 /\ exportMsgs[2][1].at > T0
    /\ Len(written) = 1 /\ written[1].logs = exportMsgs[2]

-----------------------------------------------------------------------------
(* Smoothing and the display *)

\* a step of the single loop that runs update
TickStep == ~ticked /\ ticked'

\* C22: every tick replaces smoothedDb by alpha*currentDb +
\* (1-alpha)*smoothedDb, whether or not it refreshes the display; the display
\* value and lastDisplayUpdateMs change only on a tick with
\* now - lastDisplayUpdateMs > refreshInterval, which sets the display value
\* to that tick's smoothedDb and lastDisplayUpdateMs to now (so two
\* consecutive refreshes are more than refreshInterval apart)
C22_SmoothedEveryTick ==
    [][ /\ TickStep =>
              smoothedDbRef' =
                  (smoothingAlphaRef * currentDb' * 1000
                       + (100 - smoothingAlphaRef) * smoothedDbRef + 50) \div 100
        /\ IF TickStep /\ now - lastDisplayUpdateRef > displayIntervalRef
           THEN /\ displayDb' = smoothedDbRef'
                /\ lastDisplayUpdateRef' = now
                /\ lastDisplayUpdateRef' - lastDisplayUpdateRef > displayIntervalRef
           ELSE UNCHANGED << displayDb, lastDisplayUpdateRef >>
      ]_vars

\* a tick has moved smoothedDb without refreshing the display, after an
\* earlier tick had refreshed it
C22_Witness ==
    /\ ticked
    /\ lastDisplayUpdateRef > T0 /\ lastDisplayUpdateRef < now
    /\ now - lastDisplayUpdateRef <= displayIntervalRef
    /\ smoothedDbRef # displayDb
    /\ currentDb = 90

\* the row of the table of lines 139-141 and 169-170 for a speed
RowOf(sp) ==
    IF sp = "slow" THEN << 10, 1000 >>
    ELSE IF sp = "fast" THEN << 60, 400 >>
    ELSE << 25, 700 >>

\* C23: once the component is mounted, and so whenever a tick runs, alpha
\* and the refresh interval are the table row (0.10, 1000), (0.25, 700) or
\* (0.60, 400) of the current smoothingSpeed, slow, medium and fast
\* respectively, and the medium row for a speed that is not in the table
C23_RowOfSpeed ==
    phase # "boot" =>
        << smoothingAlphaRef, displayIntervalRef >> = RowOf(smoothingSpeed)

\* a tick has run at a loaded speed that is not in the table
C23_Witness ==
    /\ smoothingSpeed = "turbo"
    /\ loops # {} /\ tickedLoops # {}
    /\ smoothedDbRef = 22500
    /\ smoothingAlphaRef = 25 /\ displayIntervalRef = 700

Dist(a, b) == IF a >= b THEN a - b ELSE b - a

\* frames since the stream became constant
ConstantFor == IF feed = "decay" THEN tickNo - 3 ELSE tickNo

\* C24: at every tick smoothedDb lies between its previous value and the
\* tick's input V and does not pass V, and its distance from V is (1 - alpha)
\* times the previous distance (to the rounding of one step: half a
\* thousandth of a dB); after 65 ticks of a constant stream of at most 90 dB
\* it is within alpha of V
C24_TowardsInput ==
    /\ [][ TickStep =>
              LET v == currentDb' * 1000
              IN  /\ smoothedDbRef <= v => (smoothedDbRef <= smoothedDbRef'
                                             /\ smoothedDbRef' <= v)
                  /\ smoothedDbRef >= v => (smoothedDbRef >= smoothedDbRef'
                                             /\ smoothedDbRef' >= v)
                  /\ Dist(100 * Dist(v, smoothedDbRef'),
                          (100 - smoothingAlphaRef) * Dist(v, smoothedDbRef)) <= 50
       ]_vars
    /\ [](ticked /\ ConstantFor >= 65 =>
              Dist(currentDb * 1000, smoothedDbRef) <= smoothingAlphaRef * 10)

\* the slow average has come within alpha of a constant loud stream, and
\* was further than alpha from it one tick earlier
C24_Witness ==
    /\ feed = "life" /\ smoothingAlphaRef = 10 /\ ticked
    /\ currentDb = 90
    /\ smoothedDbRef < 90000 /\ 90000 - smoothedDbRef <= 100
    /\ (90000 - smoothedDbRef) * 100 > 90 * 100

-----------------------------------------------------------------------------
(* What a device change resets *)

\* the cleanup of the device effect runs: another device is selected while
\* one is selected
DeviceChanged == selectedDevice # "" /\ selectedDevice' # selectedDevice

\* C25 (as stated): a device change returns the HistoryBuffer, the
\* SessionBuffer with sessionPeakDb and the SoundEvent log to their initial
\* contents
C25_AllBuffersReset ==
    [][ DeviceChanged =>
          /\ history' = [i \in 1..100 |-> 0]
          /\ sessionHistory' = << >> /\ sessionPeakRef' = 0
          /\ events' = << >>
      ]_vars

\* C25 (amended): a device change returns the HistoryBuffer to 100 zeros and
\* the peak to 0, and leaves the SessionBuffer, sessionPeakDb and the
\* SoundEvent log as they are
C25_HistoryAndPeakReset ==
    [][ DeviceChanged =>
          /\ history' = [i \in 1..100 |-> 0] /\ peak' = 0
          /\ UNCHANGED << sessionHistory, sessionPeakRef, events >>
      ]_vars

\* the device was changed after the session had logged an event and the
\* aggregator had fired: the history and the peak are reset, the event,
\* sessionPeakDb and the SessionBuffer are kept
C25_Witness ==
    /\ stoppedLoops # {} /\ pendingStarts # {}
    /\ peak = 0 /\ history = [i \in 1..100 |-> 0]
    /\ sessionPeakRef = 90 /\ Len(events) = 1
    /\ sessionHistory = << 90 >>

\* C26: a device change resets smoothedDb and lastDisplayUpdateMs to 0, so
\* that the first tick of the new session averages from 0
C26_SmoothingReset ==
    [][ DeviceChanged => smoothedDbRef' = 0 /\ lastDisplayUpdateRef' = 0 ]_vars

-----------------------------------------------------------------------------
(* The aggregator and the session *)

\* a step of the monitoring session: a start, a stop, an acquisition or its
\* failure, a device change
SessionStep ==
    \/ starts' # starts
    \/ pendingStarts' # pendingStarts
    \/ stoppedLoops' # stoppedLoops
    \/ selectedDevice' # selectedDevice
    \/ streamRef' # streamRef

\* the timer is started by the first pass of the effects and from then on
\* is due every 30000 ms; no step of the session moves it or changes the
\* SessionBuffer
TimerIndependent ==
    [][ /\ nextAgg' # nextAgg =>
              \/ phase = "boot" /\ nextAgg' = now + 30000
              \/ phase # "boot" /\ now >= nextAgg /\ nextAgg' = nextAgg + 30000
        /\ SessionStep =>
              /\ nextAgg' = nextAgg
              /\ sessionHistory' = sessionHistory
              /\ sessionUpdates' = sessionUpdates
      ]_vars

\* what the aggregator appended for an interval in which no tick ran is 0
QuietAppendsZero ==
    \A i \in 1..Len(aggAppended) : ~aggTicked[i] => aggAppended[i] = 0

\* C27: the aggregation timer is started once, fires every 30000 ms whatever
\* the monitoring session does, is neither moved nor is the SessionBuffer
\* cleared by a start, a stop or a device change, and appends 0 for an
\* interval with no ticks
C27_AggregatorIndependent == TimerIndependent /\ []QuietAppendsZero

-----------------------------------------------------------------------------
(* The detector after a tick, the emission, and what the timers write *)

\* C28: after every tick, alerting is true exactly if the tick's currentDb
\* is greater than the threshold, and loudStartMs is set exactly if alerting
\* is true: a tick at or below the threshold clears it, a tick above the
\* threshold sets it to now if it was unset and leaves it otherwise
C28_AlertingAfterTick ==
    [][ TickStep =>
          /\ isAlerting' = (currentDb' > thresholdRef)
          /\ (loudStartTimeRef' # << >>) = isAlerting'
          /\ currentDb' <= thresholdRef => loudStartTimeRef' = << >>
          /\ (currentDb' > thresholdRef /\ loudStartTimeRef = << >>) =>
                loudStartTimeRef' = << now >>
          /\ (currentDb' > thresholdRef /\ loudStartTimeRef # << >>) =>
                loudStartTimeRef' = loudStartTimeRef
      ]_vars

\* the second tick read exactly the threshold and cleared the loudStartMs
\* that the first tick had set
C28_Witness ==
    /\ ticked /\ tickNo = 2
    /\ currentDb = thresholdRef /\ brokenRun
    /\ ~isAlerting /\ loudStartTimeRef = << >>

\* a step in which an emission timer fires
EmissionStep == emitTimers' # emitTimers /\ emitTimers' \subseteq emitTimers

\* C29: an emission sends one notification whose body carries eventPeakDb as
\* it is when the timer fires and the duration read by the qualifying tick,
\* inserts one SoundEvent with that peak at the front of the log, sets
\* lastNotifyMs to the time of the emission, isEventOccurring to false and
\* eventPeakDb to 0, and leaves loudStartMs, smoothedDb, sessionPeakDb and
\* the SessionBuffer unchanged
C29_EmissionEffects ==
    [][ EmissionStep =>
          \E t \in emitTimers \ emitTimers' :
              /\ emitTimers' = emitTimers \ {t}
              /\ t.limit % 10 = 0
              /\ notified' = Append(notified,
                                    [title |-> "Sustained Noise Detected!",
                                     body  |-> << "Level reached ", eventPeakRef,
                                                  " dB for ", t.limit \div 10,
                                                  "+ sec." >>,
                                     at    |-> now])
              /\ Len(events') = (IF Len(events) < 50 THEN Len(events) + 1 ELSE 50)
              /\ events'[1].db = eventPeakRef
              /\ \A i \in 2..Len(events') : events'[i] = events[i - 1]
              /\ lastNotifyTime' = now
              /\ isEventOccurring' = FALSE
              /\ eventPeakRef' = 0
              /\ UNCHANGED << loudStartTimeRef, smoothedDbRef, sessionPeakRef,
                              sessionHistory >>
      ]_vars

\* an emission has just fired during a loud run, with a smoothed level and
\* a session peak in place
C29_Witness ==
    /\ Len(notified) = 1 /\ Len(events) = 1 /\ events[1].db = 90
    /\ lastNotifyTime = now /\ ~isEventOccurring /\ eventPeakRef = 0
    /\ loudStartTimeRef # << >> /\ smoothedDbRef > 0 /\ sessionPeakRef = 90

\* a step in which the aggregation timer fires
AggregatorStep == phase # "boot" /\ nextAgg' # nextAgg

\* C30 (as stated): a timer that fires changes none of the fields that the
\* tick writes
C30_TimersWriteNoTickField ==
    [][ (EmissionStep \/ AggregatorStep) =>
          UNCHANGED << currentDb, peak, sessionPeakRef, history, isAlerting,
                       loudStartTimeRef, eventPeakRef, isEventOccurring,
                       smoothedDbRef, lastDisplayUpdateRef, displayDb >>
      ]_vars

\* C30 (amended): of the fields that the tick writes, the emission changes
\* eventPeakDb and isEventOccurring only, which it resets, and the
\* aggregator changes sessionPeakDb only, which it resets to 0; the others
\* are as the last tick left them
C30_TimersResetOwnFields ==
    [][ /\ EmissionStep =>
              /\ eventPeakRef' = 0 /\ isEventOccurring' = FALSE
              /\ UNCHANGED << currentDb, peak, sessionPeakRef, history, isAlerting,
                              loudStartTimeRef, smoothedDbRef,
                              lastDisplayUpdateRef, displayDb >>
        /\ AggregatorStep =>
              /\ sessionPeakRef' = 0
              /\ UNCHANGED << currentDb, peak, history, isAlerting,
                              loudStartTimeRef, eventPeakRef, isEventOccurring,
                              smoothedDbRef, lastDisplayUpdateRef, displayDb >>
      ]_vars

\* both timers have fired in the frame that follows a loud tick: the two
\* peaks they own are reset, what else the tick wrote is in place
C30_Witness ==
    /\ ~ticked /\ Len(aggTicked) = 1 /\ ~windowTicked
    /\ Len(notified) = 1 /\ lastNotifyTime = now
    /\ eventPeakRef = 0 /\ sessionPeakRef = 0
    /\ peak = 90 /\ currentDb = 90 /\ isAlerting /\ loudStartTimeRef # << >>
    /\ smoothedDbRef > 0

-----------------------------------------------------------------------------
(* The emission flag, the logged peak, the audio context, the first pass *)

\* C31: at most one emission timer is pending, and isEventOccurring is true
\* exactly while one is pending, whatever devices are selected and however
\* many loops run update
C31_OnePendingEmission ==
    /\ Cardinality(emitTimers) <= 1
    /\ isEventOccurring = (emitTimers # {})

\* an emission is pending while two loops run update, one of them the loop
\* of a session that a device change has stopped
C31_Witness ==
    /\ Cardinality(emitTimers) = 1 /\ isEventOccurring
    /\ Cardinality(loops) = 2 /\ stoppedLoops # {}
    /\ tickedLoops = loops

\* C32: the db of every SoundEvent logged is greater than the threshold that
\* the qualifying tick read, and so is not 0; from the qualification to its
\* emission eventPeakDb stays above that threshold, also when the threshold
\* is changed during the delay
C32_LoggedAboveThreshold ==
    /\ [][ \A t \in emitTimers \ emitTimers' :
               events'[1].db > t.thr /\ events'[1].db > 0 ]_vars
    /\ [](\A t \in emitTimers : eventPeakRef > t.thr /\ eventPeakRef > 0)

\* an event qualified at threshold 80 has been logged at 90 dB after the
\* threshold had been raised above the level during the delay
C32_Witness ==
    /\ Len(events) = 1 /\ events[1].db = 90 /\ lastNotifyTime = now
    /\ thresholdRef = 110 /\ ~isAlerting /\ loudStartTimeRef = << >>
    /\ lastQualAt = now - 1000

\* C33: while a session holds a stream the audioContext reference is that
\* session's context, whenever the close of the previous context settles;
\* a stopMonitoring that ends a session leaves that session's context closed
\* or being closed; stopMonitoring twice in a row leaves what one call leaves
C33_ContextOfSession ==
    /\ [](streamRef # 0 => audioContext = streamRef)
    /\ [][ streamRef # 0 /\ streamRef' = 0 =>
              streamRef \in closing' \/ ctxState'[streamRef] = "closed" ]_vars
    /\ [](stopMonitoring(stopMonitoring(Session)) = stopMonitoring(Session))

\* a saved record whose four values the guards of the load effect let through
LetsThrough(saved) ==
    /\ saved # << >>
    /\ TruthyNum(saved[1].threshold) /\ TruthyNum(saved[1].durationThreshold)
    /\ Defined(saved[1].calibrationOffset) /\ TruthyStr(saved[1].smoothingSpeed)

FourOf(r) ==
    << r.threshold, r.durationThreshold, r.calibrationOffset, r.smoothingSpeed >>

\* C34: at a startup that finds a saved record, from the first pass of the
\* effects on and through the render that follows it, the stored threshold,
\* duration, calibration offset and smoothing speed are the saved ones, and
\* thresholdRef, durationRef and calibrationRef hold the saved values, not
\* the defaults
C34_SavedSettingsKept ==
    /\ [](phase = "loading" /\ LetsThrough(bootRecord) =>
            /\ storage # << >>
            /\ FourOf(storage[1]) = FourOf(bootRecord[1])
            /\ thresholdRef = bootRecord[1].threshold[1]
            /\ durationRef = bootRecord[1].durationThreshold[1]
            /\ calibrationRef = bootRecord[1].calibrationOffset[1])
    /\ [][ phase = "loading" /\ phase' = "ready" /\ LetsThrough(bootRecord) =>
              /\ FourOf(storage'[1]) = FourOf(bootRecord[1])
              /\ thresholdRef' = bootRecord[1].threshold[1]
              /\ durationRef' = bootRecord[1].durationThreshold[1]
              /\ calibrationRef' = bootRecord[1].calibrationOffset[1] ]_vars

====
